---- MODULE Spec2Model ----
(***************************************************************************)
(* GeminiImageClient (src/src/gemini.ts): generateImage and describeImage  *)
(* as a state machine.  An invocation validates its options, builds the    *)
(* request body, issues one fetch, suspends until the response arrives     *)
(* and decodes it into a result or a thrown Error.                         *)
(*                                                                         *)
(* JavaScript objects are records whose DOMAIN is the set of keys that are *)
(* present; an optional field that was not supplied is a key missing from  *)
(* the DOMAIN.  Strings are TLA+ strings, arrays are sequences.            *)
(***************************************************************************)
EXTENDS Integers, Sequences, FiniteSets, TLC

VARIABLES
  apiKey,      \* this.apiKey of the client
  pc,          \* per invocation: "idle", "awaiting" (suspended at await fetch), "settled"
  op,          \* per invocation: the method that was called
  options,     \* per invocation: the options argument, while the code before the await can still read it
  inflight,    \* per invocation: the fetch calls issued and not yet answered
  fetchCount,  \* per invocation: how many times fetch has been called
  response,    \* per invocation: the response the fetch resolved with
  bodyReads,   \* per invocation: the body readers invoked on the response
  outcome,     \* per invocation: the state of the promise the client method returned
  client,      \* whether the client has been constructed, and how construction ended
  tool,        \* per invocation: the tool the handler was called for, if it came through the handler
  arguments,   \* per invocation: request.params.arguments, while the handler can still read them
  reply,       \* per invocation: the result the handler returned
  cancelled    \* per invocation: the host has cancelled the call while it was in flight

vars == <<apiKey, pc, op, options, inflight, fetchCount, response, bodyReads,
          outcome, client, tool, arguments, reply, cancelled>>

(***************************************************************************)
(* Bounds of the model.                                                    *)
(***************************************************************************)
MaxImages == 2
MaxParts == 3
\* Number of invocations in flight at once in the concurrent specification.
NumConcurrent == 2

(***************************************************************************)
(* Constants of gemini.ts.                                                 *)
(***************************************************************************)
GEMINI_API_BASE == "https://generativelanguage.googleapis.com/v1beta/models"

ALLOWED_MODELS ==
  << "gemini-3-pro-image-preview",
     "gemini-2.5-flash-preview-05-20",
     "gemini-2.0-flash-exp" >>

DEFAULT_MODEL == "gemini-3-pro-image-preview"

defaultPrompt == "Describe this image in detail. What do you see?"

(***************************************************************************)
(* JavaScript primitives used by the client.                               *)
(***************************************************************************)
\* The empty object {}.
EmptyObject == <<>>

\* obj.key is present and truthy (strings: non-empty; objects and arrays:
\* always truthy).
Truthy(obj, key) ==
  /\ key \in DOMAIN obj
  /\ obj[key] # ""

\* Array.prototype.includes: some element equals x.
ArrayIncludes(arr, x) == \E k \in 1..Len(arr) : arr[k] = x

\* String.prototype.includes: sub occurs in s as a contiguous substring.
StringIncludes(s, sub) ==
  \E k \in 1..(Len(s) - Len(sub) + 1) : SubSeq(s, k, k + Len(sub) - 1) = sub

\* Array.prototype.join.
RECURSIVE Join(_, _)
Join(arr, sep) ==
  IF Len(arr) = 0 THEN ""
  ELSE IF Len(arr) = 1 THEN arr[1]
  ELSE arr[1] \o sep \o Join(Tail(arr), sep)

\* { key: value } when cond holds, {} otherwise (conditional spread).
SpreadIf(cond, key, value) ==
  IF cond THEN [k \in {key} |-> value] ELSE EmptyObject

(***************************************************************************)
(* Promise settlements and thrown errors.                                  *)
(***************************************************************************)
\* throw new Error(message) inside an async function: the promise rejects.
Rejected(message) == [status |-> "rejected", message |-> message]

\* return value inside an async function: the promise fulfils.
Fulfilled(value) == [status |-> "fulfilled", value |-> value]

Pending == [status |-> "pending"]

NotCalled == [status |-> "none"]

NoResponse == [received |-> FALSE]

\* The value of options[i] while no options object is in scope.
NoOptions == [inScope |-> FALSE]

\* What one run-to-suspension segment of an async method did: the fetch calls
\* it issued, the response-body readers it invoked, and how it left the
\* promise.
Threw(message) ==
  [fetches |-> <<>>, reads |-> <<>>, outcome |-> Rejected(message)]

Awaiting(call) ==
  [fetches |-> <<call>>, reads |-> <<>>, outcome |-> Pending]

ThrewAfter(reads, message) ==
  [fetches |-> <<>>, reads |-> reads, outcome |-> Rejected(message)]

ReturnedAfter(reads, value) ==
  [fetches |-> <<>>, reads |-> reads, outcome |-> Fulfilled(value)]

(***************************************************************************)
(* Request construction, shared by generateImage and describeImage.        *)
(***************************************************************************)
\* Mutant: an omitted model falls back to the fast model.
model_FallsBackToFlash(opts) ==
  IF Truthy(opts, "model") THEN opts.model ELSE "gemini-2.0-flash-exp"

\* const model = options.model || DEFAULT_MODEL;
\* Mutant: only a missing model falls back to the default (?? instead of ||).
model_NullishOnly(opts) == IF "model" \in DOMAIN opts THEN opts.model ELSE DEFAULT_MODEL

model(opts) == IF Truthy(opts, "model") THEN opts.model ELSE DEFAULT_MODEL

\* `Invalid model: ${model}. Allowed: ${ALLOWED_MODELS.join(", ")}`
InvalidModelMessage(m) ==
  "Invalid model: " \o m \o ". Allowed: " \o Join(ALLOWED_MODELS, ", ")

\* Mutant: the model is accepted on its "gemini-" prefix alone.
modelAllowed_PrefixOnly(m) == Len(m) >= 7 /\ SubSeq(m, 1, 7) = "gemini-"

\* ALLOWED_MODELS.includes(model)
modelAllowed(m) == ArrayIncludes(ALLOWED_MODELS, m)

\* Mutant: every Gemini model is taken to support imageConfig.
supportsImageConfig_AnyGemini(m) == StringIncludes(m, "gemini")

\* const supportsImageConfig = model.includes("image") || model.includes("imagen");
supportsImageConfig(m) == StringIncludes(m, "image") \/ StringIncludes(m, "imagen")

\* Mutant: the attachments are pushed in reverse order.
inlineDataParts_Reversed(images) ==
  [k \in 1..Len(images) |->
     [inlineData |-> [mimeType |-> images[Len(images) + 1 - k].mimeType,
                      data     |-> images[Len(images) + 1 - k].data]]]

\* requestParts.push({ inlineData: { mimeType: img.mimeType, data: img.data } })
\* for each img of images, in order.
inlineDataParts(images) ==
  [k \in 1..Len(images) |->
     [inlineData |-> [mimeType |-> images[k].mimeType, data |-> images[k].data]]]

\* `${GEMINI_API_BASE}/${model}:generateContent?key=${this.apiKey}`
url(m, key) == GEMINI_API_BASE \o "/" \o m \o ":generateContent?key=" \o key

\* fetch(url, { method: "POST", headers: {...}, body: JSON.stringify(requestBody) })
\* The body is kept as the object that is serialised.
fetchCall(u, requestBody) ==
  [ url     |-> u,
    method  |-> "POST",
    headers |-> [h \in {"Content-Type"} |-> "application/json"],
    body    |-> requestBody ]

(***************************************************************************)
(* generateImage, up to and including the fetch (gemini.ts 30-87).         *)
(***************************************************************************)
generateRequestParts(opts) ==
  <<[text |-> opts.prompt]>> \o
    (IF "images" \in DOMAIN opts /\ Len(opts.images) > 0
       THEN inlineDataParts(opts.images)
       ELSE <<>>)

\* Mutant: imageSize is never copied into imageConfig.
generateImageConfig_DropsImageSize(opts) ==
  SpreadIf(Truthy(opts, "aspectRatio"), "aspectRatio", opts.aspectRatio)

\* imageConfig: { ...(aspectRatio && { aspectRatio }), ...(imageSize && { imageSize }) }
generateImageConfig(opts) ==
  SpreadIf(Truthy(opts, "aspectRatio"), "aspectRatio", opts.aspectRatio)
    @@ SpreadIf(Truthy(opts, "imageSize"), "imageSize", opts.imageSize)

generateRequestBody(opts) ==
  [ contents |-> << [parts |-> generateRequestParts(opts)] >>,
    generationConfig |->
      [responseModalities |-> <<"TEXT", "IMAGE">>]
        @@ SpreadIf(/\ supportsImageConfig(model(opts))
                    /\ (Truthy(opts, "aspectRatio") \/ Truthy(opts, "imageSize")),
                    "imageConfig", generateImageConfig(opts)) ]

\* The synchronous prefix of generateImage: either it throws, or it issues
\* the fetch and suspends at `await fetch(...)`.
generateImageStart(key, opts) ==
  IF ~modelAllowed(model(opts))
    THEN Threw(InvalidModelMessage(model(opts)))
    ELSE Awaiting(fetchCall(url(model(opts), key), generateRequestBody(opts)))

(***************************************************************************)
(* describeImage, up to and including the fetch (gemini.ts 129-178).       *)
(***************************************************************************)
\* Mutant: the default instruction is sent whatever prompt was supplied.
describeRequestParts_IgnoresPrompt(opts) ==
  <<[text |-> defaultPrompt]>> \o inlineDataParts(opts.images)

describeRequestParts(opts) ==
  <<[text |-> IF Truthy(opts, "prompt") THEN opts.prompt ELSE defaultPrompt]>>
    \o inlineDataParts(opts.images)

describeRequestBody(opts) ==
  [ contents |-> << [parts |-> describeRequestParts(opts)] >>,
    generationConfig |-> [responseModalities |-> <<"TEXT">>] ]

\* Mutant: the image count is validated before the model.
describeImageStart_ImagesFirst(key, opts) ==
  IF ~("images" \in DOMAIN opts) \/ Len(opts.images) = 0
    THEN Threw("At least one image is required")
  ELSE IF ~modelAllowed(model(opts))
    THEN Threw(InvalidModelMessage(model(opts)))
    ELSE Awaiting(fetchCall(url(model(opts), key), describeRequestBody(opts)))

\* Mutant: an empty images array is not rejected, only a missing one.
describeImageStart_AcceptsEmptyArray(key, opts) ==
  IF ~modelAllowed(model(opts))
    THEN Threw(InvalidModelMessage(model(opts)))
  ELSE IF ~("images" \in DOMAIN opts)
    THEN Threw("At least one image is required")
    ELSE Awaiting(fetchCall(url(model(opts), key), describeRequestBody(opts)))

\* The synchronous prefix of describeImage.
describeImageStart(key, opts) ==
  IF ~modelAllowed(model(opts))
    THEN Threw(InvalidModelMessage(model(opts)))
  ELSE IF ~("images" \in DOMAIN opts) \/ Len(opts.images) = 0
    THEN Threw("At least one image is required")
    ELSE Awaiting(fetchCall(url(model(opts), key), describeRequestBody(opts)))

(***************************************************************************)
(* Response decoding.  A response is [ok, status, body]; the body has its  *)
(* raw text and, when that text is valid JSON, the parsed value.           *)
(***************************************************************************)
\* await response.text()
responseText(r) == r.body.text

\* Mutant: the response body is left out of the message.
HttpErrorMessage_StatusOnly(r) ==
  "Gemini API error (" \o ToString(r.status) \o ")"

\* `Gemini API error (${response.status}): ${errorText}`
HttpErrorMessage(r) ==
  "Gemini API error (" \o ToString(r.status) \o "): " \o responseText(r)

\* `Gemini API error: ${data.error.message}`
ProviderErrorMessage(data) == "Gemini API error: " \o data.error.message

\* The SyntaxError response.json() rejects with on a body that is not JSON
\* (the message text is the runtime's).
JsonSyntaxErrorMessage == "Unexpected token in JSON"

\* !data.candidates || data.candidates.length === 0
noCandidates(data) ==
  ~("candidates" \in DOMAIN data) \/ Len(data.candidates) = 0

\* const responseParts = data.candidates[0].content.parts;
responseParts(data) == data.candidates[1].content.parts

\* Mutant: the two checks are independent (`if` ... `if` instead of
\* `if` ... `else if`), so a part with both fields updates both variables.
generateScanStep_IndependentChecks(acc, part) ==
  LET withImage ==
        IF "inlineData" \in DOMAIN part
          THEN [imageData |-> [mimeType   |-> part.inlineData.mimeType,
                               base64Data |-> part.inlineData.data]] @@ acc
          ELSE acc IN
    IF Truthy(part, "text")
      THEN [description |-> part.text] @@ withImage
      ELSE withImage

\* Mutant: the first inline-data part wins instead of the last.
generateScanStep_FirstImageWins(acc, part) ==
  IF "inlineData" \in DOMAIN part
    THEN acc @@ [imageData |-> [mimeType   |-> part.inlineData.mimeType,
                                base64Data |-> part.inlineData.data]]
  ELSE IF Truthy(part, "text")
    THEN [description |-> part.text] @@ acc
    ELSE acc

\* Mutant: text parts are concatenated instead of the last one winning.
generateScanStep_ConcatenatesText(acc, part) ==
  IF "inlineData" \in DOMAIN part
    THEN [imageData |-> [mimeType   |-> part.inlineData.mimeType,
                         base64Data |-> part.inlineData.data]] @@ acc
  ELSE IF Truthy(part, "text")
    THEN [description |->
            (IF "description" \in DOMAIN acc THEN acc.description ELSE "")
              \o part.text] @@ acc
    ELSE acc

\* One iteration of the generateImage scan (gemini.ts 109-116).  acc holds
\* imageData and description; a key is missing while the variable is
\* null / undefined.
generateScanStep(acc, part) ==
  IF "inlineData" \in DOMAIN part
    THEN [imageData |-> [mimeType   |-> part.inlineData.mimeType,
                         base64Data |-> part.inlineData.data]] @@ acc
  ELSE IF Truthy(part, "text")
    THEN [description |-> part.text] @@ acc
    ELSE acc

RECURSIVE generateScan(_, _)
generateScan(parts, acc) ==
  IF Len(parts) = 0 THEN acc
  ELSE generateScan(Tail(parts), generateScanStep(acc, Head(parts)))

\* Mutant: a response without an image is returned with its description.
generateDecode_AllowsTextOnly(data) ==
  LET acc == generateScan(responseParts(data), EmptyObject) IN
    ReturnedAfter(<<"json">>,
      (IF "imageData" \in DOMAIN acc THEN acc.imageData ELSE EmptyObject)
        @@ SpreadIf("description" \in DOMAIN acc, "description", acc.description))

\* gemini.ts 104-126.  The returned object's description key is left out
\* when description is undefined.
generateDecode(data) ==
  LET acc == generateScan(responseParts(data), EmptyObject) IN
    IF ~("imageData" \in DOMAIN acc)
      THEN ThrewAfter(<<"json">>, "No image data in Gemini response")
      ELSE ReturnedAfter(<<"json">>,
             acc.imageData
               @@ SpreadIf("description" \in DOMAIN acc, "description",
                           acc.description))

\* Mutant: the candidate list is looked at before the error object.
generateImageOnOk_CandidatesFirst(r) ==
  IF ~("json" \in DOMAIN r.body)
    THEN ThrewAfter(<<"json">>, JsonSyntaxErrorMessage)
  ELSE IF ~noCandidates(r.body.json)
    THEN generateDecode(r.body.json)
  ELSE IF "error" \in DOMAIN r.body.json
    THEN ThrewAfter(<<"json">>, ProviderErrorMessage(r.body.json))
    ELSE ThrewAfter(<<"json">>, "No image generated - empty response from Gemini")

\* generateImage after a response whose ok flag is set (gemini.ts 94-126).
generateImageOnOk(r) ==
  IF ~("json" \in DOMAIN r.body)
    THEN ThrewAfter(<<"json">>, JsonSyntaxErrorMessage)
  ELSE IF "error" \in DOMAIN r.body.json
    THEN ThrewAfter(<<"json">>, ProviderErrorMessage(r.body.json))
  ELSE IF noCandidates(r.body.json)
    THEN ThrewAfter(<<"json">>, "No image generated - empty response from Gemini")
    ELSE generateDecode(r.body.json)

\* Mutant: a failure status makes the method send the request again.
generateImageResume_RetriesOnFailure(r) ==
  IF ~r.ok
    THEN [fetches |-> <<fetchCall("retry", EmptyObject)>>,
          reads   |-> <<"text">>,
          outcome |-> Pending]
    ELSE generateImageOnOk(r)

\* generateImage from the resumption after `await fetch` (gemini.ts 89-126).
generateImageResume(r) ==
  IF ~r.ok
    THEN ThrewAfter(<<"text">>, HttpErrorMessage(r))
    ELSE generateImageOnOk(r)

\* Mutant: the last text part wins, as in generateImage.
describeScanStep_LastTextWins(description, part) ==
  IF Truthy(part, "text") THEN part.text ELSE description

\* One iteration of the describeImage scan (gemini.ts 199-201).
describeScanStep(description, part) ==
  IF Truthy(part, "text") THEN description \o part.text ELSE description

RECURSIVE describeScan(_, _)
describeScan(parts, description) ==
  IF Len(parts) = 0 THEN description
  ELSE describeScan(Tail(parts), describeScanStep(description, Head(parts)))

\* gemini.ts 195-208.
describeDecode(data) ==
  LET description == describeScan(responseParts(data), "") IN
    IF description = ""
      THEN ThrewAfter(<<"json">>, "No description in Gemini response")
      ELSE ReturnedAfter(<<"json">>, description)

\* Mutant: an empty candidate list is reported as a missing description.
describeImageResume_EmptyIsNoDescription(r) ==
  IF ~r.ok
    THEN ThrewAfter(<<"text">>, HttpErrorMessage(r))
  ELSE IF ~("json" \in DOMAIN r.body)
    THEN ThrewAfter(<<"json">>, JsonSyntaxErrorMessage)
  ELSE IF "error" \in DOMAIN r.body.json
    THEN ThrewAfter(<<"json">>, ProviderErrorMessage(r.body.json))
  ELSE IF noCandidates(r.body.json)
    THEN ThrewAfter(<<"json">>, "No description in Gemini response")
    ELSE describeDecode(r.body.json)

\* describeImage from the resumption after `await fetch` (gemini.ts 180-208).
describeImageResume(r) ==
  IF ~r.ok
    THEN ThrewAfter(<<"text">>, HttpErrorMessage(r))
  ELSE IF ~("json" \in DOMAIN r.body)
    THEN ThrewAfter(<<"json">>, JsonSyntaxErrorMessage)
  ELSE IF "error" \in DOMAIN r.body.json
    THEN ThrewAfter(<<"json">>, ProviderErrorMessage(r.body.json))
  ELSE IF noCandidates(r.body.json)
    THEN ThrewAfter(<<"json">>, "No response from Gemini")
    ELSE describeDecode(r.body.json)

(***************************************************************************)
(* The constructor (gemini.ts 23-28), called by createServer (index.ts 67). *)
(***************************************************************************)
\* Mutant: the credential is stored without being checked.
GeminiImageClient_Unchecked(key) == [apiKey |-> key]

\* new GeminiImageClient(apiKey): the instance, or the error it throws.
GeminiImageClient(key) ==
  IF key = ""
    THEN [threw |-> "GEMINI_API_KEY is required"]
    ELSE [apiKey |-> key]

(***************************************************************************)
(* Tool arguments and their schemas (index.ts 12-64).  The arguments of a  *)
(* tool call are JSON: each value carries its JSON type.  Parsing yields   *)
(* the plain typed object the client takes, or a list of issues.           *)
(***************************************************************************)
JString(str) == [type |-> "string", value |-> str]

JNumber(n) == [type |-> "number", number |-> n]

JArray(elements) == [type |-> "array", elements |-> elements]

\* The result of parsing one key: the issues found and the keys produced.
Parsed(out) == [issues |-> <<>>, out |-> out]

Issue(path, message) == [issues |-> <<path \o ": " \o message>>, out |-> EmptyObject]

\* z.string(), required or .optional().
parseString(args, key, required) ==
  IF ~(key \in DOMAIN args)
    THEN (IF required THEN Issue(key, "Required") ELSE Parsed(EmptyObject))
  ELSE IF args[key].type # "string"
    THEN Issue(key, "Expected string, received " \o args[key].type)
    ELSE Parsed([k \in {key} |-> args[key].value])

\* z.enum(values).optional().default(dflt)
\* Mutant: an omitted value stays omitted (.optional() without .default()).
parseEnumWithDefault_NoDefault(args, key, values, dflt) ==
  IF ~(key \in DOMAIN args)
    THEN Parsed(EmptyObject)
  ELSE IF args[key].type # "string"
    THEN Issue(key, "Expected string, received " \o args[key].type)
  ELSE IF ~ArrayIncludes(values, args[key].value)
    THEN Issue(key, "Invalid enum value")
    ELSE Parsed([k \in {key} |-> args[key].value])

parseEnumWithDefault(args, key, values, dflt) ==
  IF ~(key \in DOMAIN args)
    THEN Parsed([k \in {key} |-> dflt])
  ELSE IF args[key].type # "string"
    THEN Issue(key, "Expected string, received " \o args[key].type)
  ELSE IF ~ArrayIncludes(values, args[key].value)
    THEN Issue(key, "Invalid enum value")
    ELSE Parsed([k \in {key} |-> args[key].value])

\* imageInputSchema: z.object({ data: z.string(), mimeType: z.string() })
parseImageInput(element) ==
  LET data == parseString(element, "data", TRUE)
      mimeType == parseString(element, "mimeType", TRUE) IN
    [issues |-> data.issues \o mimeType.issues, out |-> data.out @@ mimeType.out]

RECURSIVE parseImageInputs(_)
parseImageInputs(elements) ==
  IF Len(elements) = 0 THEN [issues |-> <<>>, out |-> <<>>]
  ELSE LET first == parseImageInput(Head(elements))
           rest == parseImageInputs(Tail(elements)) IN
         [issues |-> first.issues \o rest.issues, out |-> <<first.out>> \o rest.out]

\* Mutant: the array schema has no minimum length.
parseImages_NoMinimum(args, key, required, min) ==
  IF ~(key \in DOMAIN args)
    THEN (IF required THEN Issue(key, "Required") ELSE Parsed(EmptyObject))
  ELSE IF args[key].type # "array"
    THEN Issue(key, "Expected array, received " \o args[key].type)
  ELSE LET elements == parseImageInputs(args[key].elements) IN
    IF Len(elements.issues) > 0
      THEN [issues |-> elements.issues, out |-> EmptyObject]
      ELSE Parsed([k \in {key} |-> elements.out])

\* z.array(imageInputSchema), with .optional() or .min(1).
parseImages(args, key, required, min) ==
  IF ~(key \in DOMAIN args)
    THEN (IF required THEN Issue(key, "Required") ELSE Parsed(EmptyObject))
  ELSE IF args[key].type # "array"
    THEN Issue(key, "Expected array, received " \o args[key].type)
  ELSE LET elements == parseImageInputs(args[key].elements) IN
    IF Len(elements.issues) > 0
      THEN [issues |-> elements.issues, out |-> EmptyObject]
    ELSE IF Len(args[key].elements) < min
      THEN Issue(key, "Array must contain at least 1 element(s)")
      ELSE Parsed([k \in {key} |-> elements.out])

\* z.object({...}).parse: every key is parsed, unknown keys are dropped, and
\* the issues of all keys are collected.
parseObject(fields) ==
  [ issues |-> fields[1].issues \o fields[2].issues \o fields[3].issues
                 \o fields[4].issues \o fields[5].issues,
    data   |-> fields[1].out @@ fields[2].out @@ fields[3].out
                 @@ fields[4].out @@ fields[5].out ]

ASPECT_RATIOS == <<"1:1", "3:4", "4:3", "9:16", "16:9">>

IMAGE_SIZES == <<"1K", "2K", "4K">>

generateImageSchema(args) ==
  parseObject(<< parseString(args, "prompt", TRUE),
                 parseEnumWithDefault(args, "aspectRatio", ASPECT_RATIOS, "1:1"),
                 parseEnumWithDefault(args, "imageSize", IMAGE_SIZES, "1K"),
                 parseString(args, "model", FALSE),
                 parseImages(args, "images", FALSE, 0) >>)

editImageSchema(args) ==
  parseObject(<< parseString(args, "prompt", TRUE),
                 parseImages(args, "images", TRUE, 1),
                 parseString(args, "model", FALSE),
                 Parsed(EmptyObject),
                 Parsed(EmptyObject) >>)

describeImageSchema(args) ==
  parseObject(<< parseImages(args, "images", TRUE, 1),
                 parseString(args, "prompt", FALSE),
                 parseString(args, "model", FALSE),
                 Parsed(EmptyObject),
                 Parsed(EmptyObject) >>)

\* The message of the ZodError that parse throws; the text stands for Zod's
\* serialisation of the issue list.
ZodErrorMessage(issues) == Join(issues, "; ")

(***************************************************************************)
(* The CallToolRequestSchema handler (index.ts 201-311).                   *)
(***************************************************************************)
\* { isError: true, content: [{ type: "text", text }] }
errorResult(text) ==
  [isError |-> TRUE, content |-> <<[type |-> "text", text |-> text]>>]

\* Mutant: the description block is always appended.
imageResult_AlwaysText(result) ==
  [content |->
     <<[type |-> "image", data |-> result.base64Data, mimeType |-> result.mimeType],
       [type |-> "text",
        text |-> IF "description" \in DOMAIN result THEN result.description ELSE ""]>>]

\* index.ts 207-218 and 243-254.  A property the result does not have is
\* undefined and so absent from the block.
imageResult(result) ==
  [content |->
     <<[type |-> "image"]
         @@ SpreadIf("base64Data" \in DOMAIN result, "data", result.base64Data)
         @@ SpreadIf("mimeType" \in DOMAIN result, "mimeType", result.mimeType)>>
       \o (IF Truthy(result, "description")
             THEN <<[type |-> "text", text |-> result.description]>>
             ELSE <<>>)]

\* index.ts 279-286.
textResult(description) ==
  [content |-> <<[type |-> "text", text |-> description]>>]

\* The label of each tool's catch block.
failureLabel(name) ==
  IF name = "generate_image" THEN "Failed to generate image: "
  ELSE IF name = "edit_image" THEN "Failed to edit image: "
  ELSE "Failed to describe image: "

\* Mutant: a rejected client call escapes the handler.
handlerSettle_Rethrows(name, settled) ==
  IF settled.status = "rejected"
    THEN [threw |-> settled.message]
  ELSE IF name = "describe_image"
    THEN textResult(settled.value)
    ELSE imageResult(settled.value)

\* What the handler returns once the awaited client call has settled: the
\* catch block's result, or the success mapping.
handlerSettle(name, settled) ==
  IF settled.status = "rejected"
    THEN errorResult(failureLabel(name) \o settled.message)
  ELSE IF name = "describe_image"
    THEN textResult(settled.value)
    ELSE imageResult(settled.value)

\* The options the handler passes to the client (index.ts 205, 237-241,
\* 273-277).  A key passed with the value undefined is a missing key.
clientOptions(name, data) ==
  IF name = "generate_image" THEN data
  ELSE IF name = "edit_image"
    THEN [prompt |-> data.prompt, images |-> data.images]
           @@ SpreadIf("model" \in DOMAIN data, "model", data.model)
    ELSE [images |-> data.images]
           @@ SpreadIf("prompt" \in DOMAIN data, "prompt", data.prompt)
           @@ SpreadIf("model" \in DOMAIN data, "model", data.model)

NoEffect == [fetches |-> <<>>, reads |-> <<>>, outcome |-> NotCalled]

NoReply == [sent |-> FALSE]

\* Mutant: an unknown tool name is treated as generate_image.
handlerStart_UnknownIsGenerate(key, name, args) ==
  LET parsed == IF name = "edit_image" THEN editImageSchema(args)
                ELSE IF name = "describe_image" THEN describeImageSchema(args)
                ELSE generateImageSchema(args)
      method == IF name = "describe_image" THEN "describeImage" ELSE "generateImage"
      label == IF name \in {"edit_image", "describe_image"} THEN name ELSE "generate_image"
  IN
    IF Len(parsed.issues) > 0
      THEN [method |-> "none", opts |-> NoOptions, effect |-> NoEffect,
            reply |-> errorResult(failureLabel(label) \o ZodErrorMessage(parsed.issues))]
      ELSE LET opts == clientOptions(label, parsed.data)
               effect == IF method = "describeImage"
                           THEN describeImageStart(key, opts)
                           ELSE generateImageStart(key, opts) IN
             [method |-> method, opts |-> opts, effect |-> effect,
              reply |-> IF effect.outcome = Pending THEN NoReply
                        ELSE handlerSettle(label, effect.outcome)]

\* The handler up to its first suspension: the client method it called (if
\* any) with which options, what that call did, and the result returned so
\* far (NoReply while the client call is pending).
handlerStart(key, name, args) ==
  IF name \notin {"generate_image", "edit_image", "describe_image"}
    THEN [method |-> "none", opts |-> NoOptions, effect |-> NoEffect,
          reply |-> errorResult("Unknown tool: " \o name)]
  ELSE
    LET parsed == IF name = "generate_image" THEN generateImageSchema(args)
                  ELSE IF name = "edit_image" THEN editImageSchema(args)
                  ELSE describeImageSchema(args)
        method == IF name = "describe_image" THEN "describeImage" ELSE "generateImage"
    IN
      IF Len(parsed.issues) > 0
        THEN [method |-> "none", opts |-> NoOptions, effect |-> NoEffect,
              reply |-> errorResult(failureLabel(name) \o ZodErrorMessage(parsed.issues))]
        ELSE LET opts == clientOptions(name, parsed.data)
                 effect == IF method = "describeImage"
                             THEN describeImageStart(key, opts)
                             ELSE generateImageStart(key, opts) IN
               [method |-> method, opts |-> opts, effect |-> effect,
                reply |-> IF effect.outcome = Pending THEN NoReply
                          ELSE handlerSettle(name, effect.outcome)]

(***************************************************************************)
(* Inputs: the option objects callers pass and the responses the provider  *)
(* can send, drawn from the declared types (types.ts).                     *)
(***************************************************************************)
\* All sequences over S of length at most n.
SeqUpTo(S, n) == UNION {[1..k -> S] : k \in 0..n}

\* The ways an optional field can be supplied: not at all, or with a value.
Optional(key, S) == {EmptyObject} \cup {[k \in {key} |-> v] : v \in S}

ApiKeys == {"test-api-key"}

\* Every allow-listed model, the empty string, and two identifiers outside
\* the allow-list (one of them carrying the "image" marker).
ModelInputs ==
  { "",
    "gemini-3-pro-image-preview",
    "gemini-2.5-flash-preview-05-20",
    "gemini-2.0-flash-exp",
    "gemini-1.5-pro",
    "../imagen-3.0:predict?x=" }

AspectRatios == {"1:1", "16:9"}

ImageSizes == {"1K", "4K"}

ImageInputs ==
  { [data |-> "iVBORw0KGgo=", mimeType |-> "image/png"],
    [data |-> "/9j/4AAQSkZJ", mimeType |-> "image/jpeg"] }

GenerateImageOptions ==
  { [prompt |-> p] @@ m @@ a @@ z @@ g :
      p \in {"a sunset", ""},
      m \in Optional("model", ModelInputs),
      a \in Optional("aspectRatio", AspectRatios),
      z \in Optional("imageSize", ImageSizes),
      g \in Optional("images", SeqUpTo(ImageInputs, MaxImages)) }

DescribeImageOptions ==
  { g @@ p @@ m :
      g \in Optional("images", SeqUpTo(ImageInputs, MaxImages)),
      p \in Optional("prompt", {"What is in this picture?", ""}),
      m \in Optional("model", ModelInputs) }

ImageA == [mimeType |-> "image/png", data |-> "QUFBQQ=="]

ImageB == [mimeType |-> "image/jpeg", data |-> "QkJCQg=="]

\* GeminiResponsePart: text and inlineData are both optional.
ResponsePartValues ==
  { [text |-> "A beautiful sunset"],
    [text |-> " over the sea"],
    [text |-> ""],
    [inlineData |-> ImageA],
    [inlineData |-> ImageB],
    [text |-> "caption", inlineData |-> ImageB] }

Candidate(parts) == [content |-> [parts |-> parts]]

ErrorObjects ==
  { [code |-> 400, message |-> "Invalid request", status |-> "INVALID_ARGUMENT"] }

\* GeminiResponse values: candidates and error are both optional.  Only the
\* first candidate varies freely; a second candidate, when present, holds an
\* image and a text.  Beside an error object the candidates are absent,
\* empty, or hold at most one part: the decoder never reads them there.
GeminiResponses ==
  { c : c \in Optional("candidates",
              {<<>>}
                \cup {<<Candidate(ps)>> : ps \in SeqUpTo(ResponsePartValues, MaxParts)}
                \cup {<<Candidate(ps), Candidate(<<[inlineData |-> ImageA], [text |-> "second"]>>)>> :
                        ps \in SeqUpTo(ResponsePartValues, 1)}) }
    \cup
  { e @@ c :
      e \in {[error |-> err] : err \in ErrorObjects},
      c \in Optional("candidates",
              {<<>>} \cup {<<Candidate(ps)>> : ps \in SeqUpTo(ResponsePartValues, 1)}) }

\* JSON.stringify of a GeminiResponse, as the provider puts it on the wire.
Quoted(str) == "\"" \o str \o "\""

StringifyPart(part) ==
  "{" \o Join(
      (IF "text" \in DOMAIN part
         THEN <<Quoted("text") \o ":" \o Quoted(part.text)>> ELSE <<>>)
      \o (IF "inlineData" \in DOMAIN part
         THEN <<Quoted("inlineData") \o ":{" \o Quoted("mimeType") \o ":"
                  \o Quoted(part.inlineData.mimeType) \o "," \o Quoted("data")
                  \o ":" \o Quoted(part.inlineData.data) \o "}">>
         ELSE <<>>), ",") \o "}"

StringifyCandidate(c) ==
  "{" \o Quoted("content") \o ":{" \o Quoted("parts") \o ":["
    \o Join([k \in 1..Len(c.content.parts) |-> StringifyPart(c.content.parts[k])], ",")
    \o "]}}"

Stringify(data) ==
  "{" \o Join(
      (IF "candidates" \in DOMAIN data
         THEN <<Quoted("candidates") \o ":["
                  \o Join([k \in 1..Len(data.candidates) |->
                             StringifyCandidate(data.candidates[k])], ",")
                  \o "]">>
         ELSE <<>>)
      \o (IF "error" \in DOMAIN data
         THEN <<Quoted("error") \o ":{" \o Quoted("code") \o ":"
                  \o ToString(data.error.code) \o "," \o Quoted("message") \o ":"
                  \o Quoted(data.error.message) \o "," \o Quoted("status") \o ":"
                  \o Quoted(data.error.status) \o "}">>
         ELSE <<>>), ",") \o "}"

\* Response bodies: JSON documents, and texts that are not JSON.
JsonBody(data) == [text |-> Stringify(data), json |-> data]

TextBody(text) == [text |-> text]

HttpResponse(status, body) ==
  [ok |-> (status >= 200 /\ status <= 299), status |-> status, body |-> body]

\* Success statuses carry any GeminiResponse or a non-JSON text; failure
\* statuses carry a plain text, an error document, or a document that has
\* both an error object and a candidate with an image.
Responses ==
  {HttpResponse(200, JsonBody(d)) : d \in GeminiResponses}
    \cup {HttpResponse(200, TextBody("<html>Bad gateway</html>"))}
    \cup {HttpResponse(st, b) :
            st \in {401, 500},
            b \in { TextBody("Unauthorized"),
                    TextBody(""),
                    JsonBody([error |-> [code |-> 401, message |-> "API key not valid",
                                         status |-> "UNAUTHENTICATED"]]),
                    JsonBody([candidates |-> <<Candidate(<<[inlineData |-> ImageA],
                                                          [text |-> "A beautiful sunset"]>>)>>]) }}

\* Credentials handed to createServer.
ApiKeyInputs == ApiKeys \cup {""}

\* Tool names of CallTool requests: the three tools and two others.
ToolNames ==
  {"generate_image", "edit_image", "describe_image", "delete_image", "generateImage"}

\* Tool arguments as JSON.  Prompts and models may have the wrong JSON type,
\* enum values may be outside the enum, image lists may be empty.
ToolImageInputs ==
  { [data |-> JString(img.data), mimeType |-> JString(img.mimeType)] : img \in ImageInputs }

ToolArguments ==
  { p @@ m @@ a @@ z @@ g :
      p \in Optional("prompt", {JString("a sunset"), JNumber(42)}),
      m \in Optional("model", {JString("gemini-2.0-flash-exp"), JString("gemini-1.5-pro")}),
      a \in Optional("aspectRatio", {JString("16:9"), JString("2:1")}),
      z \in Optional("imageSize", {JString("4K")}),
      g \in Optional("images", {JArray(imgs) : imgs \in SeqUpTo(ToolImageInputs, MaxImages)}) }

NoTool == [called |-> FALSE]

NoArguments == [inScope |-> FALSE]

\* Reasons fetch itself rejects with (no response was received).
FetchFailures == {"fetch failed"}

(***************************************************************************)
(* The state machine.  Each invocation slot holds one call of              *)
(* generateImage or describeImage on the client.                           *)
(***************************************************************************)
Invocations == {1}

\* Before createServer runs there is no client; its apiKey field is unset.
Init ==
  /\ apiKey = ""
  /\ client = [state |-> "none"]
  /\ tool = [i \in Invocations |-> NoTool]
  /\ arguments = [i \in Invocations |-> NoArguments]
  /\ reply = [i \in Invocations |-> NoReply]
  /\ cancelled = [i \in Invocations |-> FALSE]
  /\ pc = [i \in Invocations |-> "idle"]
  /\ op = [i \in Invocations |-> "none"]
  /\ options = [i \in Invocations |-> NoOptions]
  /\ inflight = [i \in Invocations |-> <<>>]
  /\ fetchCount = [i \in Invocations |-> 0]
  /\ response = [i \in Invocations |-> NoResponse]
  /\ bodyReads = [i \in Invocations |-> <<>>]
  /\ outcome = [i \in Invocations |-> NotCalled]

\* A variant in which a settling segment settles every pending call with
\* its own outcome, as if the result were held in state shared by the calls.
Apply_SettlesEveryPending(i, answered, effect) ==
  /\ inflight' = [inflight EXCEPT ![i] = SubSeq(@, answered + 1, Len(@)) \o effect.fetches]
  /\ fetchCount' = [fetchCount EXCEPT ![i] = @ + Len(effect.fetches)]
  /\ bodyReads' = [bodyReads EXCEPT ![i] = @ \o effect.reads]
  /\ outcome' = [j \in DOMAIN outcome |->
                   IF j = i \/ (outcome[j] = Pending /\ effect.outcome # Pending)
                     THEN effect.outcome ELSE outcome[j]]
  /\ pc' = [j \in DOMAIN pc |->
              IF j = i \/ (outcome[j] = Pending /\ effect.outcome # Pending)
                THEN (IF effect.outcome = Pending THEN "awaiting" ELSE "settled")
                ELSE pc[j]]

\* Apply what a segment of the method did to slot i; answered is the number
\* of in-flight fetch calls that were answered when the segment started.
Apply(i, answered, effect) ==
  /\ inflight' = [inflight EXCEPT ![i] = SubSeq(@, answered + 1, Len(@)) \o effect.fetches]
  /\ fetchCount' = [fetchCount EXCEPT ![i] = @ + Len(effect.fetches)]
  /\ bodyReads' = [bodyReads EXCEPT ![i] = @ \o effect.reads]
  /\ outcome' = [outcome EXCEPT ![i] = effect.outcome]
  /\ pc' = [pc EXCEPT ![i] = IF effect.outcome = Pending THEN "awaiting" ELSE "settled"]

\* createServer(key): the client is constructed, or the constructor throws
\* and no client (and no server) exists.
CreateServer(key) ==
  /\ client.state # "constructed"
  /\ LET instance == GeminiImageClient(key) IN
       IF "threw" \in DOMAIN instance
         THEN /\ client' = [state |-> "threw", given |-> key, message |-> instance.threw]
              /\ UNCHANGED apiKey
         ELSE /\ client' = [state |-> "constructed", given |-> key]
              /\ apiKey' = instance.apiKey
  /\ UNCHANGED <<pc, op, options, inflight, fetchCount, response, bodyReads,
                 outcome, tool, arguments, reply, cancelled>>

\* The handler is called with a CallTool request for tool `name`.
CallTool(i, name, args) ==
  /\ client.state = "constructed"
  /\ pc[i] = "idle"
  /\ LET started == handlerStart(apiKey, name, args) IN
       /\ tool' = [tool EXCEPT ![i] = [name |-> name]]
       /\ arguments' = [arguments EXCEPT ![i] = args]
       /\ op' = [op EXCEPT ![i] = started.method]
       /\ options' = [options EXCEPT ![i] = started.opts]
       /\ reply' = [reply EXCEPT ![i] = started.reply]
       /\ Apply(i, 0, started.effect)
  /\ UNCHANGED <<apiKey, client, response, cancelled>>

\* The handler's continuation once its awaited client call has settled; a
\* handler whose client call is still pending stays suspended.
HandlerResumes(i, settled) ==
  /\ reply' = [reply EXCEPT ![i] = IF tool[i] = NoTool \/ settled = Pending THEN NoReply
                                   ELSE handlerSettle(tool[i].name, settled)]
  /\ arguments' = [arguments EXCEPT ![i] = NoArguments]
  /\ UNCHANGED <<tool, client, cancelled>>

\* client.generateImage(opts) is called.
GenerateImage(i, opts) ==
  /\ client.state = "constructed"
  /\ pc[i] = "idle"
  /\ op' = [op EXCEPT ![i] = "generateImage"]
  /\ options' = [options EXCEPT ![i] = opts]
  /\ Apply(i, 0, generateImageStart(apiKey, opts))
  /\ UNCHANGED <<apiKey, response, client, tool, arguments, reply, cancelled>>

\* client.describeImage(opts) is called.
DescribeImage(i, opts) ==
  /\ client.state = "constructed"
  /\ pc[i] = "idle"
  /\ op' = [op EXCEPT ![i] = "describeImage"]
  /\ options' = [options EXCEPT ![i] = opts]
  /\ Apply(i, 0, describeImageStart(apiKey, opts))
  /\ UNCHANGED <<apiKey, response, client, tool, arguments, reply, cancelled>>

\* The fetch of a generateImage call resolves with response r; the method
\* resumes and runs to its end.  Nothing after the await reads the options.
GenerateImageResponse(i, r) ==
  /\ pc[i] = "awaiting"
  /\ op[i] = "generateImage"
  /\ response' = [response EXCEPT ![i] = r]
  /\ options' = [options EXCEPT ![i] = NoOptions]
  /\ Apply(i, 1, generateImageResume(r))
  /\ HandlerResumes(i, generateImageResume(r).outcome)
  /\ UNCHANGED <<apiKey, op>>

\* The fetch of a describeImage call resolves with response r.
DescribeImageResponse(i, r) ==
  /\ pc[i] = "awaiting"
  /\ op[i] = "describeImage"
  /\ response' = [response EXCEPT ![i] = r]
  /\ options' = [options EXCEPT ![i] = NoOptions]
  /\ Apply(i, 1, describeImageResume(r))
  /\ HandlerResumes(i, describeImageResume(r).outcome)
  /\ UNCHANGED <<apiKey, op>>

\* The fetch rejects: neither method catches, so the call rejects with the
\* same error.
FetchRejected(i, reason) ==
  /\ pc[i] = "awaiting"
  /\ options' = [options EXCEPT ![i] = NoOptions]
  /\ Apply(i, 1, Threw(reason))
  /\ HandlerResumes(i, Threw(reason).outcome)
  /\ UNCHANGED <<apiKey, op, response>>

\* The host cancels call i while its fetch is in flight.  The handler takes
\* only `request` and fetch is given no signal: nothing observes the
\* cancellation, the fetch stays in flight and the call goes on as before.
Cancel(i) ==
  /\ pc[i] = "awaiting"
  /\ ~cancelled[i]
  /\ cancelled' = [cancelled EXCEPT ![i] = TRUE]
  /\ UNCHANGED <<apiKey, pc, op, options, inflight, fetchCount, response,
                 bodyReads, outcome, client, tool, arguments, reply>>

\* The caller has taken the settled promise or the handler's result; the
\* slot is free for the next call.
Release(i) ==
  /\ pc[i] = "settled"
  /\ pc' = [pc EXCEPT ![i] = "idle"]
  /\ op' = [op EXCEPT ![i] = "none"]
  /\ options' = [options EXCEPT ![i] = NoOptions]
  /\ inflight' = [inflight EXCEPT ![i] = <<>>]
  /\ fetchCount' = [fetchCount EXCEPT ![i] = 0]
  /\ response' = [response EXCEPT ![i] = NoResponse]
  /\ bodyReads' = [bodyReads EXCEPT ![i] = <<>>]
  /\ outcome' = [outcome EXCEPT ![i] = NotCalled]
  /\ tool' = [tool EXCEPT ![i] = NoTool]
  /\ arguments' = [arguments EXCEPT ![i] = NoArguments]
  /\ reply' = [reply EXCEPT ![i] = NoReply]
  /\ cancelled' = [cancelled EXCEPT ![i] = FALSE]
  /\ UNCHANGED <<apiKey, client>>

Next ==
  \/ \E key \in ApiKeyInputs : CreateServer(key)
  \/ \E i \in DOMAIN pc : \E name \in ToolNames : \E args \in ToolArguments :
       CallTool(i, name, args)
  \/ \E i \in DOMAIN pc : \E opts \in GenerateImageOptions : GenerateImage(i, opts)
  \/ \E i \in DOMAIN pc : \E opts \in DescribeImageOptions : DescribeImage(i, opts)
  \/ \E i \in DOMAIN pc : \E r \in Responses : GenerateImageResponse(i, r)
  \/ \E i \in DOMAIN pc : \E r \in Responses : DescribeImageResponse(i, r)
  \/ \E i \in DOMAIN pc : \E reason \in FetchFailures : FetchRejected(i, reason)
  \/ \E i \in DOMAIN pc : Release(i)

Spec == Init /\ [][Next]_vars

(***************************************************************************)
(* Several invocations on one client.  The host may call the handler or    *)
(* the client again while earlier calls are suspended at their fetch; the  *)
(* steps of different calls interleave at the awaits.  The inputs are a    *)
(* selection of the ones above, one for each path through the methods.     *)
(***************************************************************************)
ConcInvocations == 1..NumConcurrent

ConcGenerateOptions ==
  { [prompt |-> "a cat"],
    [prompt |-> "a cat", model |-> "gemini-2.0-flash-exp", images |-> <<ImageA>>],
    [prompt |-> "a cat", model |-> "gemini-1.5-pro"] }

ConcDescribeOptions ==
  { [images |-> <<ImageB>>],
    [images |-> <<>>] }

ConcToolImage ==
  [data |-> JString(ImageA.data), mimeType |-> JString(ImageA.mimeType)]

ConcToolCalls ==
  { [name |-> "edit_image",
     args |-> [prompt |-> JString("a sunset"), images |-> JArray(<<ConcToolImage>>)]],
    [name |-> "describe_image",
     args |-> [images |-> JArray(<<>>)]] }

ConcResponses ==
  { HttpResponse(200,
                 JsonBody([candidates |-> <<Candidate(<<[inlineData |-> ImageA],
                                                        [text |-> "caption"]>>)>>])),
    HttpResponse(200,
                 JsonBody([candidates |-> <<Candidate(<<[text |-> "caption"]>>)>>])),
    HttpResponse(200, JsonBody([candidates |-> <<>>])),
    HttpResponse(401, TextBody("Unauthorized")) }

ConcInit ==
  /\ apiKey = ""
  /\ client = [state |-> "none"]
  /\ tool = [i \in ConcInvocations |-> NoTool]
  /\ arguments = [i \in ConcInvocations |-> NoArguments]
  /\ reply = [i \in ConcInvocations |-> NoReply]
  /\ cancelled = [i \in ConcInvocations |-> FALSE]
  /\ pc = [i \in ConcInvocations |-> "idle"]
  /\ op = [i \in ConcInvocations |-> "none"]
  /\ options = [i \in ConcInvocations |-> NoOptions]
  /\ inflight = [i \in ConcInvocations |-> <<>>]
  /\ fetchCount = [i \in ConcInvocations |-> 0]
  /\ response = [i \in ConcInvocations |-> NoResponse]
  /\ bodyReads = [i \in ConcInvocations |-> <<>>]
  /\ outcome = [i \in ConcInvocations |-> NotCalled]

ConcNext ==
  \/ \E key \in ApiKeyInputs : CreateServer(key)
  \/ \E i \in DOMAIN pc : \E call \in ConcToolCalls :
       CallTool(i, call.name, call.args)
  \/ \E i \in DOMAIN pc : \E opts \in ConcGenerateOptions : GenerateImage(i, opts)
  \/ \E i \in DOMAIN pc : \E opts \in ConcDescribeOptions : DescribeImage(i, opts)
  \/ \E i \in DOMAIN pc : \E r \in ConcResponses : GenerateImageResponse(i, r)
  \/ \E i \in DOMAIN pc : \E r \in ConcResponses : DescribeImageResponse(i, r)
  \/ \E i \in DOMAIN pc : \E reason \in FetchFailures : FetchRejected(i, reason)
  \/ \E i \in DOMAIN pc : Release(i)

ConcSpec == ConcInit /\ [][ConcNext]_vars

(***************************************************************************)
(* The same invocations with a host that may cancel a call in flight.      *)
(***************************************************************************)
CancelNext ==
  \/ ConcNext
  \/ \E i \in DOMAIN pc : Cancel(i)

CancelSpec == ConcInit /\ [][CancelNext]_vars

TypeOK ==
  /\ apiKey \in ApiKeyInputs
  /\ client.state \in {"none", "threw", "constructed"}
  /\ \A i \in DOMAIN pc :
       /\ pc[i] \in {"idle", "awaiting", "settled"}
       /\ op[i] \in {"none", "generateImage", "describeImage"}
       /\ outcome[i].status \in {"none", "pending", "fulfilled", "rejected"}
       /\ (op[i] = "none") = (outcome[i] = NotCalled)
       /\ (pc[i] = "awaiting") = (outcome[i] = Pending)
       /\ (pc[i] = "idle") => (op[i] = "none" /\ tool[i] = NoTool)
       /\ (tool[i] # NoTool /\ pc[i] = "settled") = (reply[i] # NoReply)
       /\ cancelled[i] \in BOOLEAN
       /\ cancelled[i] => pc[i] # "idle"

(***************************************************************************)
(* Vocabulary of the properties below.                                     *)
(***************************************************************************)
\* The allow-list as a set.
AllowList == {ALLOWED_MODELS[k] : k \in 1..Len(ALLOWED_MODELS)}

HasImageMarker(m) == StringIncludes(m, "image") \/ StringIncludes(m, "imagen")

StartsWith(str, prefix) ==
  Len(str) >= Len(prefix) /\ SubSeq(str, 1, Len(prefix)) = prefix

\* Invocation i was called and its options object is still in scope: it is
\* suspended at the fetch or has thrown before reaching it.
Called(i) == op[i] # "none" /\ options[i] # NoOptions

IsRejected(i) == outcome[i].status = "rejected"

IsFulfilled(i) == outcome[i].status = "fulfilled"

\* Invocation i has sent exactly one request, which is still unanswered.
Sent(i) ==
  /\ pc[i] = "awaiting"
  /\ fetchCount[i] = 1
  /\ Len(inflight[i]) = 1

\* The error is the invalid-model error for value m: it names m and every
\* entry of the allow-list.
IsInvalidModelError(i, m) ==
  /\ IsRejected(i)
  /\ StartsWith(outcome[i].message, "Invalid model")
  /\ StringIncludes(outcome[i].message, m)
  /\ \A a \in AllowList : StringIncludes(outcome[i].message, a)

\* The response of invocation i has a success status and parses to a
\* document without an error object whose candidate list is non-empty.
HasCandidates(i) ==
  /\ response[i] # NoResponse
  /\ response[i].ok
  /\ "json" \in DOMAIN response[i].body
  /\ ~("error" \in DOMAIN response[i].body.json)
  /\ "candidates" \in DOMAIN response[i].body.json
  /\ Len(response[i].body.json.candidates) > 0

\* The parts list of the first candidate of the response of invocation i.
FirstParts(i) == response[i].body.json.candidates[1].content.parts

\* The largest element of a non-empty set of positions.
Last(S) == CHOOSE k \in S : \A j \in S : j <= k

(***************************************************************************)
(* C1, as stated: every generateImage and describeImage request whose      *)
(* model value is outside the allow-list fails with the Invalid model      *)
(* error naming the value and the allowed set, and issues no network call. *)
(* The code refutes it for the empty string, which is outside the          *)
(* allow-list but is replaced by the default model.                        *)
(***************************************************************************)
C1_AnyModelOutsideAllowListRejected ==
  \A i \in DOMAIN pc :
    (Called(i) /\ "model" \in DOMAIN options[i] /\ options[i].model \notin AllowList)
      => /\ IsInvalidModelError(i, options[i].model)
         /\ fetchCount[i] = 0

(***************************************************************************)
(* C1, amended: every generateImage and describeImage request whose model  *)
(* value is non-empty and outside the allow-list fails with the Invalid    *)
(* model error naming the value and the allowed set, and no network call   *)
(* has been issued by that invocation.                                     *)
(***************************************************************************)
C1_InvalidModelRejectedBeforeNetwork ==
  \A i \in DOMAIN pc :
    (/\ Called(i)
     /\ "model" \in DOMAIN options[i]
     /\ options[i].model # ""
     /\ options[i].model \notin AllowList)
      => /\ pc[i] = "settled"
         /\ IsInvalidModelError(i, options[i].model)
         /\ fetchCount[i] = 0
         /\ inflight[i] = <<>>
         /\ response[i] = NoResponse

C1_Witness ==
  \E i \in DOMAIN pc :
    /\ op[i] = "describeImage"
    /\ Called(i)
    /\ "model" \in DOMAIN options[i]
    /\ options[i].model = "gemini-1.5-pro"
    /\ "images" \in DOMAIN options[i]
    /\ Len(options[i].images) = 1
    /\ IsRejected(i)

(***************************************************************************)
(* C2: every invocation issues at most one network call: a call that fails *)
(* locally (invalid model, no images for describeImage) has issued none,   *)
(* and a call that settled after its fetch was answered or rejected has    *)
(* issued exactly one and has no further request outstanding.              *)
(***************************************************************************)
LocalFailureMessage(message) ==
  \/ StartsWith(message, "Invalid model")
  \/ message = "At least one image is required"

C2_AtMostOneNetworkCall ==
  \A i \in DOMAIN pc :
    /\ fetchCount[i] <= 1
    /\ Len(inflight[i]) <= 1
    /\ (IsRejected(i) /\ LocalFailureMessage(outcome[i].message))
         => fetchCount[i] = 0
    /\ (op[i] = "none") => fetchCount[i] = 0
    /\ (/\ pc[i] = "settled"
        /\ op[i] # "none"
        /\ ~(IsRejected(i) /\ LocalFailureMessage(outcome[i].message)))
         => (fetchCount[i] = 1 /\ inflight[i] = <<>>)

C2_Witness ==
  \E i \in DOMAIN pc :
    /\ op[i] = "generateImage"
    /\ pc[i] = "settled"
    /\ response[i] # NoResponse
    /\ ~response[i].ok
    /\ IsRejected(i)
    /\ fetchCount[i] = 1

(***************************************************************************)
(* C3: for an allow-listed model whose identifier has no image marker, the *)
(* generateImage request is sent and its generationConfig has no           *)
(* imageConfig key, whatever aspectRatio and imageSize were supplied.      *)
(***************************************************************************)
C3_NoImageConfigForNonImageModels ==
  \A i \in DOMAIN pc :
    (/\ op[i] = "generateImage"
     /\ Called(i)
     /\ "model" \in DOMAIN options[i]
     /\ options[i].model \in AllowList
     /\ ~HasImageMarker(options[i].model))
      => /\ Sent(i)
         /\ ~("imageConfig" \in DOMAIN inflight[i][1].body.generationConfig)

C3_Witness ==
  \E i \in DOMAIN pc :
    /\ op[i] = "generateImage"
    /\ Called(i)
    /\ "model" \in DOMAIN options[i]
    /\ options[i].model = "gemini-2.0-flash-exp"
    /\ "aspectRatio" \in DOMAIN options[i]
    /\ "imageSize" \in DOMAIN options[i]
    /\ Sent(i)

(***************************************************************************)
(* C4: for an allow-listed model whose identifier has an image marker, the *)
(* generateImage request carries an imageConfig holding exactly the        *)
(* supplied ones of aspectRatio and imageSize with their values, and no    *)
(* imageConfig key at all when neither was supplied.                       *)
(***************************************************************************)
SuppliedShaping(opts) == {"aspectRatio", "imageSize"} \cap DOMAIN opts

C4_ImageConfigExactlySuppliedFields ==
  \A i \in DOMAIN pc :
    (/\ op[i] = "generateImage"
     /\ Called(i)
     /\ "model" \in DOMAIN options[i]
     /\ options[i].model \in AllowList
     /\ HasImageMarker(options[i].model))
      => /\ Sent(i)
         /\ LET config == inflight[i][1].body.generationConfig IN
              IF SuppliedShaping(options[i]) = {}
                THEN ~("imageConfig" \in DOMAIN config)
                ELSE /\ "imageConfig" \in DOMAIN config
                     /\ DOMAIN config.imageConfig = SuppliedShaping(options[i])
                     /\ \A k \in SuppliedShaping(options[i]) :
                          config.imageConfig[k] = options[i][k]

C4_Witness ==
  \E i \in DOMAIN pc :
    /\ op[i] = "generateImage"
    /\ Called(i)
    /\ "model" \in DOMAIN options[i]
    /\ options[i].model = "gemini-3-pro-image-preview"
    /\ SuppliedShaping(options[i]) = {"imageSize"}
    /\ Sent(i)
    /\ "imageConfig" \in DOMAIN inflight[i][1].body.generationConfig

(***************************************************************************)
(* C5: a fulfilled generateImage call returns one image, the last          *)
(* inline-data part of the first candidate's parts list, with its MIME     *)
(* type and base64 payload unchanged.                                      *)
(***************************************************************************)
InlineDataPositions(parts) ==
  {k \in 1..Len(parts) : "inlineData" \in DOMAIN parts[k]}

C5_LastInlineDataPartIsReturned ==
  \A i \in DOMAIN pc :
    (op[i] = "generateImage" /\ IsFulfilled(i))
      => /\ HasCandidates(i)
         /\ InlineDataPositions(FirstParts(i)) # {}
         /\ LET chosen == FirstParts(i)[Last(InlineDataPositions(FirstParts(i)))] IN
              /\ outcome[i].value.mimeType = chosen.inlineData.mimeType
              /\ outcome[i].value.base64Data = chosen.inlineData.data
         /\ {"mimeType", "base64Data"} \subseteq DOMAIN outcome[i].value
         /\ DOMAIN outcome[i].value \subseteq {"mimeType", "base64Data", "description"}

C5_Witness ==
  \E i \in DOMAIN pc :
    /\ op[i] = "generateImage"
    /\ IsFulfilled(i)
    /\ HasCandidates(i)
    /\ FirstParts(i) = <<[inlineData |-> ImageA], [text |-> "A beautiful sunset"],
                         [inlineData |-> ImageB]>>
    /\ outcome[i].value.base64Data = ImageB.data

(***************************************************************************)
(* C6, as stated: a fulfilled generateImage call returns as description    *)
(* the text of the last text part of the first candidate, and no           *)
(* description exactly when the parts list has no text part.  A text part  *)
(* is a part with a text and no inline data.  The code refutes it for a    *)
(* text part whose text is empty: such a part is not recorded.             *)
(***************************************************************************)
TextPositions(parts) ==
  {k \in 1..Len(parts) :
     "text" \in DOMAIN parts[k] /\ ~("inlineData" \in DOMAIN parts[k])}

C6_DescriptionIsLastTextPart ==
  \A i \in DOMAIN pc :
    (op[i] = "generateImage" /\ IsFulfilled(i))
      => IF TextPositions(FirstParts(i)) = {}
           THEN ~("description" \in DOMAIN outcome[i].value)
           ELSE /\ "description" \in DOMAIN outcome[i].value
                /\ outcome[i].value.description
                     = FirstParts(i)[Last(TextPositions(FirstParts(i)))].text

(***************************************************************************)
(* C6, amended: a fulfilled generateImage call returns as description the  *)
(* text of the last text part of the first candidate whose text is not     *)
(* empty (earlier ones are discarded, not concatenated), and no            *)
(* description exactly when the parts list has no text part with a         *)
(* non-empty text.                                                         *)
(***************************************************************************)
CaptionPositions(parts) ==
  {k \in 1..Len(parts) :
     /\ "text" \in DOMAIN parts[k]
     /\ parts[k].text # ""
     /\ ~("inlineData" \in DOMAIN parts[k])}

C6_DescriptionIsLastCaptionPart ==
  \A i \in DOMAIN pc :
    (op[i] = "generateImage" /\ IsFulfilled(i))
      => IF CaptionPositions(FirstParts(i)) = {}
           THEN ~("description" \in DOMAIN outcome[i].value)
           ELSE /\ "description" \in DOMAIN outcome[i].value
                /\ outcome[i].value.description
                     = FirstParts(i)[Last(CaptionPositions(FirstParts(i)))].text

C6_Witness ==
  \E i \in DOMAIN pc :
    /\ op[i] = "generateImage"
    /\ IsFulfilled(i)
    /\ FirstParts(i) = <<[text |-> "A beautiful sunset"], [inlineData |-> ImageA],
                         [text |-> " over the sea"]>>
    /\ outcome[i].value.description = " over the sea"

(***************************************************************************)
(* C7: a generateImage call whose response has a success status, no error  *)
(* object and a non-empty candidate list, but no inline-data part in the   *)
(* first candidate, fails with "No image data in Gemini response" even     *)
(* when text parts are present; no fulfilled call lacks an image.          *)
(***************************************************************************)
C7_NoImageDataIsAnError ==
  \A i \in DOMAIN pc :
    /\ (/\ op[i] = "generateImage"
        /\ pc[i] = "settled"
        /\ HasCandidates(i)
        /\ InlineDataPositions(FirstParts(i)) = {})
         => outcome[i] = Rejected("No image data in Gemini response")
    /\ (op[i] = "generateImage" /\ IsFulfilled(i))
         => /\ "mimeType" \in DOMAIN outcome[i].value
            /\ "base64Data" \in DOMAIN outcome[i].value

C7_Witness ==
  \E i \in DOMAIN pc :
    /\ op[i] = "generateImage"
    /\ pc[i] = "settled"
    /\ HasCandidates(i)
    /\ FirstParts(i) = <<[text |-> "A beautiful sunset"]>>
    /\ outcome[i] = Rejected("No image data in Gemini response")

(***************************************************************************)
(* C8: describeImage returns the texts of all text parts of the first      *)
(* candidate concatenated in response order without separator; the         *)
(* returned string is never empty, and the call fails with "No description *)
(* in Gemini response" exactly when that concatenation is empty.           *)
(***************************************************************************)
RECURSIVE AllTexts(_)
AllTexts(parts) ==
  IF Len(parts) = 0 THEN ""
  ELSE (IF "text" \in DOMAIN Head(parts) THEN Head(parts).text ELSE "")
         \o AllTexts(Tail(parts))

C8_DescribeConcatenatesTextParts ==
  \A i \in DOMAIN pc :
    /\ (op[i] = "describeImage" /\ pc[i] = "settled" /\ HasCandidates(i))
         => IF AllTexts(FirstParts(i)) = ""
              THEN outcome[i] = Rejected("No description in Gemini response")
              ELSE outcome[i] = Fulfilled(AllTexts(FirstParts(i)))
    /\ (op[i] = "describeImage" /\ IsFulfilled(i))
         => (HasCandidates(i) /\ outcome[i].value # "")
    /\ (op[i] = "describeImage"
        /\ outcome[i] = Rejected("No description in Gemini response"))
         => (HasCandidates(i) /\ AllTexts(FirstParts(i)) = "")

C8_Witness ==
  \E i \in DOMAIN pc :
    /\ op[i] = "describeImage"
    /\ IsFulfilled(i)
    /\ FirstParts(i) = <<[text |-> "A beautiful sunset"], [text |-> " over the sea"]>>
    /\ outcome[i].value = "A beautiful sunset over the sea"

(***************************************************************************)
(* C9: describeImage called without an images list, or with an empty one,  *)
(* and with an allow-listed or omitted model fails with "At least one      *)
(* image is required" and issues no network call.                          *)
(***************************************************************************)
C9_DescribeRequiresAnImage ==
  \A i \in DOMAIN pc :
    (/\ op[i] = "describeImage"
     /\ Called(i)
     /\ ("model" \in DOMAIN options[i] => options[i].model \in AllowList)
     /\ ("images" \in DOMAIN options[i] => Len(options[i].images) = 0))
      => /\ pc[i] = "settled"
         /\ outcome[i] = Rejected("At least one image is required")
         /\ fetchCount[i] = 0
         /\ inflight[i] = <<>>

C9_Witness ==
  \E i \in DOMAIN pc :
    /\ op[i] = "describeImage"
    /\ Called(i)
    /\ "model" \in DOMAIN options[i]
    /\ options[i].model = "gemini-2.0-flash-exp"
    /\ "images" \in DOMAIN options[i]
    /\ options[i].images = <<>>
    /\ IsRejected(i)

(***************************************************************************)
(* C10: when the response has a non-success status, generateImage and      *)
(* describeImage fail with "Gemini API error (<status>): <body>" carrying  *)
(* the raw body text; the body is read as text only and never parsed, so   *)
(* an error object or candidates inside it change nothing.                 *)
(***************************************************************************)
C10_HttpFailureCarriesStatusAndBody ==
  \A i \in DOMAIN pc :
    (pc[i] = "settled" /\ response[i] # NoResponse /\ ~response[i].ok)
      => /\ outcome[i] = Rejected("Gemini API error ("
                                    \o ToString(response[i].status) \o "): "
                                    \o response[i].body.text)
         /\ bodyReads[i] = <<"text">>

C10_Witness ==
  \E i \in DOMAIN pc :
    /\ op[i] = "describeImage"
    /\ pc[i] = "settled"
    /\ response[i] # NoResponse
    /\ response[i].status = 401
    /\ "json" \in DOMAIN response[i].body
    /\ "candidates" \in DOMAIN response[i].body.json
    /\ bodyReads[i] = <<"text">>
    /\ IsRejected(i)

(***************************************************************************)
(* C11: when a response with a success status carries a top-level error    *)
(* object, generateImage and describeImage fail with "Gemini API error:    *)
(* <message>" holding the provider's message and not its numeric code,     *)
(* even when the same document has candidates with a usable image or text. *)
(***************************************************************************)
HasErrorObject(i) ==
  /\ response[i] # NoResponse
  /\ response[i].ok
  /\ "json" \in DOMAIN response[i].body
  /\ "error" \in DOMAIN response[i].body.json

C11_ErrorObjectTakesPrecedence ==
  \A i \in DOMAIN pc :
    (pc[i] = "settled" /\ HasErrorObject(i))
      => /\ outcome[i]
              = Rejected("Gemini API error: " \o response[i].body.json.error.message)
         /\ ~StringIncludes(outcome[i].message,
                            ToString(response[i].body.json.error.code))

C11_Witness ==
  \E i \in DOMAIN pc :
    /\ op[i] = "generateImage"
    /\ pc[i] = "settled"
    /\ HasErrorObject(i)
    /\ "candidates" \in DOMAIN response[i].body.json
    /\ response[i].body.json.candidates = <<Candidate(<<[inlineData |-> ImageA]>>)>>
    /\ IsRejected(i)

(***************************************************************************)
(* C12: when a response with a success status has no error object and its  *)
(* candidate list is absent or empty, generateImage fails with "No image   *)
(* generated - empty response from Gemini" and describeImage with "No      *)
(* response from Gemini"; the missing-payload failures are raised only     *)
(* when candidates exist.                                                  *)
(***************************************************************************)
HasNoCandidates(i) ==
  /\ response[i] # NoResponse
  /\ response[i].ok
  /\ "json" \in DOMAIN response[i].body
  /\ ~("error" \in DOMAIN response[i].body.json)
  /\ ("candidates" \in DOMAIN response[i].body.json
        => Len(response[i].body.json.candidates) = 0)

C12_EmptyResponseIsDistinctFailure ==
  \A i \in DOMAIN pc :
    /\ (pc[i] = "settled" /\ HasNoCandidates(i))
         => outcome[i]
              = Rejected(IF op[i] = "generateImage"
                           THEN "No image generated - empty response from Gemini"
                           ELSE "No response from Gemini")
    /\ (\/ outcome[i] = Rejected("No image data in Gemini response")
        \/ outcome[i] = Rejected("No description in Gemini response"))
         => HasCandidates(i)

C12_Witness ==
  \E i \in DOMAIN pc :
    /\ op[i] = "describeImage"
    /\ pc[i] = "settled"
    /\ HasNoCandidates(i)
    /\ "candidates" \in DOMAIN response[i].body.json
    /\ outcome[i] = Rejected("No response from Gemini")

(***************************************************************************)
(* C13: with n image attachments supplied, the request body has exactly    *)
(* one contents entry whose parts list has length 1 + n: first the text    *)
(* part with the prompt (for describeImage the default instruction when no *)
(* prompt text is supplied), then one inline-data part per attachment in   *)
(* input order with its MIME type and data unchanged.                      *)
(***************************************************************************)
SuppliedImages(opts) == IF "images" \in DOMAIN opts THEN opts.images ELSE <<>>

PromptSent(method, opts) ==
  IF method = "describeImage" /\ ("prompt" \in DOMAIN opts => opts.prompt = "")
    THEN "Describe this image in detail. What do you see?"
    ELSE opts.prompt

C13_PartsArePromptThenAttachments ==
  \A i \in DOMAIN pc :
    (Called(i) /\ pc[i] = "awaiting")
      => /\ Sent(i)
         /\ Len(inflight[i][1].body.contents) = 1
         /\ LET parts == inflight[i][1].body.contents[1].parts
                images == SuppliedImages(options[i]) IN
              /\ Len(parts) = 1 + Len(images)
              /\ parts[1] = [text |-> PromptSent(op[i], options[i])]
              /\ \A k \in 1..Len(images) :
                   /\ DOMAIN parts[k + 1] = {"inlineData"}
                   /\ parts[k + 1].inlineData.mimeType = images[k].mimeType
                   /\ parts[k + 1].inlineData.data = images[k].data

C13_Witness ==
  \E i \in DOMAIN pc :
    /\ op[i] = "generateImage"
    /\ Called(i)
    /\ Sent(i)
    /\ "images" \in DOMAIN options[i]
    /\ Len(options[i].images) = 2
    /\ options[i].images[1].mimeType = "image/png"
    /\ options[i].images[2].mimeType = "image/jpeg"
    /\ Len(inflight[i][1].body.contents[1].parts) = 3

(***************************************************************************)
(* C20: a request that omits the model is sent to the generateContent      *)
(* endpoint of gemini-3-pro-image-preview, the default, which is a member  *)
(* of the allow-list.                                                      *)
(***************************************************************************)
C20_OmittedModelUsesDefault ==
  /\ "gemini-3-pro-image-preview" \in AllowList
  /\ \A i \in DOMAIN pc :
       (/\ Called(i)
        /\ ~("model" \in DOMAIN options[i])
        /\ (op[i] = "describeImage" => Len(SuppliedImages(options[i])) > 0))
         => /\ Sent(i)
            /\ inflight[i][1].url
                 = "https://generativelanguage.googleapis.com/v1beta/models/"
                     \o "gemini-3-pro-image-preview" \o ":generateContent?key=" \o apiKey

C20_Witness ==
  \E i \in DOMAIN pc :
    /\ op[i] = "describeImage"
    /\ Called(i)
    /\ ~("model" \in DOMAIN options[i])
    /\ Len(SuppliedImages(options[i])) = 1
    /\ Sent(i)

(***************************************************************************)
(* C14: constructing the client (and so createServer) with an empty        *)
(* credential fails with "GEMINI_API_KEY is required" and leaves no        *)
(* client; no method runs and no network call is made unless a client was  *)
(* constructed, and then its credential is not empty.                      *)
(***************************************************************************)
C14_EmptyCredentialConstructsNothing ==
  /\ (client.state # "none" /\ client.given = "")
       => (client.state = "threw" /\ client.message = "GEMINI_API_KEY is required")
  /\ (client.state # "constructed")
       => \A i \in DOMAIN pc :
            /\ pc[i] = "idle"
            /\ op[i] = "none"
            /\ tool[i] = NoTool
            /\ fetchCount[i] = 0
  /\ \A i \in DOMAIN pc :
       (op[i] # "none" \/ fetchCount[i] > 0 \/ inflight[i] # <<>>)
         => (client.state = "constructed" /\ apiKey # "")

C14_Witness ==
  /\ client.state = "threw"
  /\ client.given = ""
  /\ client.message = "GEMINI_API_KEY is required"

(***************************************************************************)
(* C15: for a call of generate_image, edit_image or describe_image, every  *)
(* failure of argument validation or of the client is returned by the      *)
(* handler as a result with isError true and one text block that starts    *)
(* with the tool's label; the handler never throws; and once the result    *)
(* has been taken the slot is back in its initial state with the same      *)
(* client, so a failed call does not hinder later calls.                   *)
(***************************************************************************)
KnownTools == {"generate_image", "edit_image", "describe_image"}

LabelOf(name) ==
  CASE name = "generate_image" -> "Failed to generate image: "
    [] name = "edit_image"     -> "Failed to edit image: "
    [] name = "describe_image" -> "Failed to describe image: "

\* The handler of slot i has finished a call of one of the three tools.
ToolSettled(i) ==
  /\ tool[i] # NoTool
  /\ tool[i].name \in KnownTools
  /\ pc[i] = "settled"

IsLabeledError(result, label) ==
  /\ DOMAIN result = {"isError", "content"}
  /\ result.isError = TRUE
  /\ Len(result.content) = 1
  /\ DOMAIN result.content[1] = {"type", "text"}
  /\ result.content[1].type = "text"
  /\ StartsWith(result.content[1].text, label)

C15_FailuresBecomeLabeledResults ==
  \A i \in DOMAIN pc :
    ToolSettled(i)
      => /\ "content" \in DOMAIN reply[i]
         /\ (op[i] = "none" \/ IsRejected(i))
              => IsLabeledError(reply[i], LabelOf(tool[i].name))
         /\ IsRejected(i)
              => reply[i].content[1].text = LabelOf(tool[i].name) \o outcome[i].message

C15_FailedCallLeavesServerUsable ==
  [][\A i \in DOMAIN pc :
       (ToolSettled(i) /\ pc'[i] = "idle")
         => /\ client' = client
            /\ apiKey' = apiKey
            /\ op'[i] = "none"
            /\ tool'[i] = NoTool
            /\ fetchCount'[i] = 0
            /\ inflight'[i] = <<>>
            /\ outcome'[i] = NotCalled
            /\ reply'[i] = NoReply]_vars

C15_HandlerNeverThrows ==
  []C15_FailuresBecomeLabeledResults /\ C15_FailedCallLeavesServerUsable

C15_Witness ==
  \E i \in DOMAIN pc :
    /\ ToolSettled(i)
    /\ tool[i].name = "edit_image"
    /\ response[i] # NoResponse
    /\ response[i].status = 401
    /\ outcome[i] = Rejected("Gemini API error (401): Unauthorized")
    /\ reply[i].content[1].text = "Failed to edit image: Gemini API error (401): Unauthorized"

(***************************************************************************)
(* C16: a successful generate_image or edit_image call returns a non-error *)
(* content sequence: the image block with the decoded MIME type and base64 *)
(* payload, followed by exactly one text block if and only if a            *)
(* description is present; a successful describe_image call returns        *)
(* exactly one text block holding the description.                         *)
(***************************************************************************)
C16_SuccessMapsToContentBlocks ==
  \A i \in DOMAIN pc :
    (ToolSettled(i) /\ IsFulfilled(i))
      => /\ DOMAIN reply[i] = {"content"}
         /\ IF tool[i].name = "describe_image"
              THEN reply[i].content = <<[type |-> "text", text |-> outcome[i].value]>>
              ELSE /\ reply[i].content[1]
                        = [type     |-> "image",
                           data     |-> outcome[i].value.base64Data,
                           mimeType |-> outcome[i].value.mimeType]
                   /\ IF "description" \in DOMAIN outcome[i].value
                        THEN /\ Len(reply[i].content) = 2
                             /\ reply[i].content[2]
                                  = [type |-> "text",
                                     text |-> outcome[i].value.description]
                        ELSE Len(reply[i].content) = 1

C16_Witness ==
  \E i \in DOMAIN pc :
    /\ ToolSettled(i)
    /\ tool[i].name = "generate_image"
    /\ IsFulfilled(i)
    /\ "description" \in DOMAIN outcome[i].value
    /\ Len(reply[i].content) = 2
    /\ reply[i].content[1].type = "image"

(***************************************************************************)
(* C17: a tool call whose arguments fail the schema (an empty images list  *)
(* for edit_image or describe_image, a prompt that is not a string)        *)
(* returns the tool's labeled isError result without calling the client,   *)
(* so no network call is issued.                                           *)
(***************************************************************************)
FailsSchema(name, args) ==
  \/ /\ name \in {"edit_image", "describe_image"}
     /\ "images" \in DOMAIN args
     /\ args.images.type = "array"
     /\ Len(args.images.elements) = 0
  \/ /\ "prompt" \in DOMAIN args
     /\ args.prompt.type # "string"

C17_SchemaFailureNeverReachesClient ==
  \A i \in DOMAIN pc :
    (/\ tool[i] # NoTool
     /\ tool[i].name \in KnownTools
     /\ arguments[i] # NoArguments
     /\ FailsSchema(tool[i].name, arguments[i]))
      => /\ pc[i] = "settled"
         /\ IsLabeledError(reply[i], LabelOf(tool[i].name))
         /\ op[i] = "none"
         /\ outcome[i] = NotCalled
         /\ fetchCount[i] = 0
         /\ inflight[i] = <<>>

C17_Witness ==
  \E i \in DOMAIN pc :
    /\ tool[i] # NoTool
    /\ tool[i].name = "describe_image"
    /\ arguments[i] # NoArguments
    /\ DOMAIN arguments[i] = {"images"}
    /\ arguments[i].images = JArray(<<>>)
    /\ "isError" \in DOMAIN reply[i]

(***************************************************************************)
(* C18: a tool call whose name is none of generate_image, edit_image and   *)
(* describe_image returns isError true with the single text block          *)
(* "Unknown tool: <name>", without calling the client or the network.      *)
(***************************************************************************)
C18_UnknownToolIsAnError ==
  \A i \in DOMAIN pc :
    (tool[i] # NoTool /\ tool[i].name \notin KnownTools)
      => /\ pc[i] = "settled"
         /\ reply[i] = [isError |-> TRUE,
                        content |-> <<[type |-> "text",
                                       text |-> "Unknown tool: " \o tool[i].name]>>]
         /\ op[i] = "none"
         /\ outcome[i] = NotCalled
         /\ fetchCount[i] = 0
         /\ inflight[i] = <<>>

C18_Witness ==
  \E i \in DOMAIN pc :
    /\ tool[i] # NoTool
    /\ tool[i].name = "delete_image"
    /\ reply[i] # NoReply
    /\ reply[i].content[1].text = "Unknown tool: delete_image"

(***************************************************************************)
(* C19: under any interleaving of concurrent invocations on one client,    *)
(* each invocation's outgoing payload and its result or failure are what   *)
(* the same call gives when run alone on its own request and its own       *)
(* response; a step of one invocation changes nothing of another; and the  *)
(* credential held by the client never changes once it is constructed.     *)
(* The allow-list and the default model are the module constants every     *)
(* run-alone result below is computed from.                                *)
(***************************************************************************)
\* Everything the model holds for invocation i.
SlotState(i) ==
  <<pc[i], op[i], options[i], inflight[i], fetchCount[i], response[i],
    bodyReads[i], outcome[i], tool[i], arguments[i], reply[i]>>

\* What the client method of invocation i does up to its await when it runs
\* alone on the invocation's own options.
StartAlone(i) ==
  IF op[i] = "generateImage"
    THEN generateImageStart(apiKey, options[i])
    ELSE describeImageStart(apiKey, options[i])

\* What it does after the await when it runs alone on the invocation's own
\* response.
ResumeAlone(i) ==
  IF op[i] = "generateImage"
    THEN generateImageResume(response[i])
    ELSE describeImageResume(response[i])

ClientCallRunsAlone(i) ==
  /\ (op[i] # "none" /\ options[i] # NoOptions)
       => /\ outcome[i] = StartAlone(i).outcome
          /\ inflight[i] = StartAlone(i).fetches
          /\ fetchCount[i] = Len(StartAlone(i).fetches)
          /\ response[i] = NoResponse
  /\ (op[i] # "none" /\ options[i] = NoOptions /\ response[i] # NoResponse)
       => /\ outcome[i] = ResumeAlone(i).outcome
          /\ bodyReads[i] = ResumeAlone(i).reads
          /\ inflight[i] = <<>>
          /\ fetchCount[i] = 1
  /\ (op[i] # "none" /\ options[i] = NoOptions /\ response[i] = NoResponse)
       => /\ \E reason \in FetchFailures : outcome[i] = Rejected(reason)
          /\ inflight[i] = <<>>
          /\ fetchCount[i] = 1

ToolCallRunsAlone(i) ==
  tool[i] # NoTool
    => /\ arguments[i] # NoArguments
            => LET alone == handlerStart(apiKey, tool[i].name, arguments[i]) IN
                 /\ op[i] = alone.method
                 /\ options[i] = alone.opts
                 /\ reply[i] = alone.reply
       /\ (arguments[i] = NoArguments)
            => reply[i] = handlerSettle(tool[i].name, outcome[i])

C19_EachInvocationRunsAlone ==
  \A i \in DOMAIN pc : ClientCallRunsAlone(i) /\ ToolCallRunsAlone(i)

C19_StepsTouchOneInvocation ==
  [][\A i, j \in DOMAIN pc :
       (i # j /\ SlotState(i)' # SlotState(i)) => SlotState(j)' = SlotState(j)]_vars

C19_CredentialNeverChanges ==
  [][client.state = "constructed"
       => (apiKey' = apiKey /\ client' = client /\ apiKey = client.given)]_vars

C19_ConcurrentInvocationsIndependent ==
  /\ []C19_EachInvocationRunsAlone
  /\ C19_StepsTouchOneInvocation
  /\ C19_CredentialNeverChanges

\* Two calls are in progress at once: one has settled from its own response
\* while the other, with a different request, is still awaiting its fetch.
C19_Witness ==
  \E i, j \in DOMAIN pc :
    /\ i # j
    /\ pc[i] = "settled" /\ op[i] = "generateImage"
    /\ response[i] # NoResponse
    /\ IsFulfilled(i)
    /\ pc[j] = "awaiting" /\ op[j] = "describeImage"
    /\ Len(inflight[j]) = 1

(***************************************************************************)
(* C21, as stated: the first part of a describeImage request is the        *)
(* caller's prompt, unchanged, whenever a prompt is supplied, and the      *)
(* default instruction when it is absent; the request asks for the TEXT    *)
(* modality only.  The code refutes it for a supplied empty prompt, which  *)
(* is replaced by the default instruction.                                 *)
(***************************************************************************)
DescribeSent(i) ==
  /\ op[i] = "describeImage"
  /\ Called(i)
  /\ Sent(i)

DescribePromptPart(i) == inflight[i][1].body.contents[1].parts[1]

C21_SuppliedPromptIsSentUnchanged ==
  \A i \in DOMAIN pc :
    DescribeSent(i)
      => /\ DescribePromptPart(i)
              = [text |-> IF "prompt" \in DOMAIN options[i]
                            THEN options[i].prompt
                            ELSE "Describe this image in detail. What do you see?"]
         /\ inflight[i][1].body.generationConfig.responseModalities = <<"TEXT">>

(***************************************************************************)
(* C21, amended: the first part of a describeImage request is the caller's *)
(* prompt, unchanged, when a non-empty prompt is supplied, and the default *)
(* instruction when the prompt is absent or empty; the request asks for    *)
(* the TEXT modality only.                                                 *)
(***************************************************************************)
C21_NonEmptyPromptIsSentUnchanged ==
  \A i \in DOMAIN pc :
    DescribeSent(i)
      => /\ DOMAIN DescribePromptPart(i) = {"text"}
         /\ ("prompt" \in DOMAIN options[i] /\ options[i].prompt # "")
              => DescribePromptPart(i).text = options[i].prompt
         /\ ("prompt" \in DOMAIN options[i] => options[i].prompt = "")
              => DescribePromptPart(i).text
                   = "Describe this image in detail. What do you see?"
         /\ inflight[i][1].body.generationConfig = [responseModalities |-> <<"TEXT">>]

C21_Witness ==
  \E i \in DOMAIN pc :
    /\ DescribeSent(i)
    /\ "prompt" \in DOMAIN options[i]
    /\ options[i].prompt = "What is in this picture?"
    /\ DescribePromptPart(i).text = "What is in this picture?"

(***************************************************************************)
(* C23: a generateImage or describeImage call whose model is the empty     *)
(* string behaves exactly as the same call without a model: it is never    *)
(* rejected as an invalid model although "" is not in the allow-list, and  *)
(* a call that is sent goes to the endpoint of the default model.          *)
(***************************************************************************)
WithoutModel(opts) == [k \in (DOMAIN opts) \ {"model"} |-> opts[k]]

HasEmptyModel(i) ==
  /\ Called(i)
  /\ "model" \in DOMAIN options[i]
  /\ options[i].model = ""

C23_EmptyModelIsOmittedModel ==
  \A i \in DOMAIN pc :
    HasEmptyModel(i)
      => /\ "" \notin AllowList
         /\ ~(IsRejected(i) /\ StartsWith(outcome[i].message, "Invalid model"))
         /\ LET omitted == IF op[i] = "generateImage"
                             THEN generateImageStart(apiKey, WithoutModel(options[i]))
                             ELSE describeImageStart(apiKey, WithoutModel(options[i])) IN
              /\ outcome[i] = omitted.outcome
              /\ inflight[i] = omitted.fetches
         /\ (op[i] = "generateImage" \/ Len(SuppliedImages(options[i])) > 0)
              => /\ Sent(i)
                 /\ inflight[i][1].url
                      = "https://generativelanguage.googleapis.com/v1beta/models/"
                          \o "gemini-3-pro-image-preview:generateContent?key=" \o apiKey

C23_Witness ==
  \E i \in DOMAIN pc :
    /\ HasEmptyModel(i)
    /\ op[i] = "describeImage"
    /\ Sent(i)
    /\ StringIncludes(inflight[i][1].url, "gemini-3-pro-image-preview")

(***************************************************************************)
(* C24: a describeImage call with both a model outside the allow-list and  *)
(* zero images fails with the Invalid model error, never with "At least    *)
(* one image is required", and every local failure of describeImage        *)
(* happens before any network call.                                        *)
(***************************************************************************)
InvalidModelAndNoImages(i) ==
  /\ op[i] = "describeImage"
  /\ Called(i)
  /\ "model" \in DOMAIN options[i]
  /\ options[i].model # ""
  /\ options[i].model \notin AllowList
  /\ Len(SuppliedImages(options[i])) = 0

BothPositions(parts) ==
  {k \in 1..Len(parts) :
     "text" \in DOMAIN parts[k] /\ "inlineData" \in DOMAIN parts[k]}

\* Part k leaves the description alone: it carries inline data, or it has no
\* text, or its text is empty.
LeavesDescription(part) ==
  \/ "inlineData" \in DOMAIN part
  \/ ~("text" \in DOMAIN part)
  \/ part.text = ""

C25_EachPartUpdatesOneAccumulator ==
  \A i \in DOMAIN pc :
    (op[i] = "generateImage" /\ IsFulfilled(i))
      => LET parts == FirstParts(i)
             value == outcome[i].value IN
           /\ "description" \in DOMAIN value => value.description # ""
           /\ (\A k \in 1..Len(parts) : LeavesDescription(parts[k]))
                => ~("description" \in DOMAIN value)
           /\ \A k \in 1..Len(parts) :
                (/\ ~LeavesDescription(parts[k])
                 /\ \A j \in (k + 1)..Len(parts) : LeavesDescription(parts[j]))
                  => /\ "description" \in DOMAIN value
                     /\ value.description = parts[k].text
           /\ \A k \in BothPositions(parts) :
                (\A j \in (k + 1)..Len(parts) : ~("inlineData" \in DOMAIN parts[j]))
                  => /\ value.base64Data = parts[k].inlineData.data
                     /\ value.mimeType = parts[k].inlineData.mimeType

C25_Witness ==
  \E i \in DOMAIN pc :
    /\ op[i] = "generateImage"
    /\ IsFulfilled(i)
    /\ FirstParts(i) = <<[text |-> "A beautiful sunset"],
                         [text |-> "caption", inlineData |-> ImageB],
                         [text |-> ""]>>
    /\ outcome[i].value = [mimeType    |-> ImageB.mimeType,
                           base64Data  |-> ImageB.data,
                           description |-> "A beautiful sunset"]

(***************************************************************************)
(* C26: a generate_image call that reaches the client has aspectRatio and  *)
(* imageSize in its options, "1:1" and "1K" where the arguments omit them, *)
(* so a request sent for a model with the image marker has imageConfig     *)
(* with both fields; an edit_image call passes neither to the client and   *)
(* its request has no imageConfig, whatever the model and whatever the     *)
(* arguments held.                                                         *)
(***************************************************************************)
\* The handler of slot i has called generateImage and its arguments are
\* still in scope.
ToolReachedClient(i, name) ==
  /\ tool[i] # NoTool
  /\ tool[i].name = name
  /\ arguments[i] # NoArguments
  /\ op[i] = "generateImage"
  /\ options[i] # NoOptions

ArgumentOr(args, key, dflt) ==
  IF key \in DOMAIN args THEN args[key].value ELSE dflt

RequestedModel(args) ==
  IF "model" \in DOMAIN args THEN args.model.value ELSE "gemini-3-pro-image-preview"

C26_DispatcherShapesImageConfig ==
  \A i \in DOMAIN pc :
    /\ ToolReachedClient(i, "generate_image")
         => /\ {"aspectRatio", "imageSize"} \subseteq DOMAIN options[i]
            /\ options[i].aspectRatio = ArgumentOr(arguments[i], "aspectRatio", "1:1")
            /\ options[i].imageSize = ArgumentOr(arguments[i], "imageSize", "1K")
            /\ (pc[i] = "awaiting" /\ HasImageMarker(RequestedModel(arguments[i])))
                 => /\ Sent(i)
                    /\ "imageConfig" \in DOMAIN inflight[i][1].body.generationConfig
                    /\ inflight[i][1].body.generationConfig.imageConfig
                         = [aspectRatio |-> options[i].aspectRatio,
                            imageSize   |-> options[i].imageSize]
    /\ ToolReachedClient(i, "edit_image")
         => /\ ~("aspectRatio" \in DOMAIN options[i])
            /\ ~("imageSize" \in DOMAIN options[i])
            /\ pc[i] = "awaiting"
                 => /\ Sent(i)
                    /\ ~("imageConfig" \in DOMAIN inflight[i][1].body.generationConfig)

C26_Witness ==
  \E i \in DOMAIN pc :
    /\ ToolReachedClient(i, "generate_image")
    /\ DOMAIN arguments[i] = {"prompt"}
    /\ Sent(i)
    /\ inflight[i][1].body.generationConfig.imageConfig
         = [aspectRatio |-> "1:1", imageSize |-> "1K"]

(***************************************************************************)
(* C22, as stated: a call that was cancelled while its fetch was in flight *)
(* ends with a failure classified as canceled; it never ends with a        *)
(* result, nor with a provider error.  The code refutes it: nothing in the *)
(* handler or the client observes a cancellation, so the fetch is not      *)
(* aborted and the call ends with whatever the response decodes to.        *)
(***************************************************************************)
\* A rejection that tells the caller the call was cancelled or aborted.
IsCanceledFailure(o) ==
  /\ o.status = "rejected"
  /\ \/ StringIncludes(o.message, "cancel")
     \/ StringIncludes(o.message, "Cancel")
     \/ StringIncludes(o.message, "abort")
     \/ StringIncludes(o.message, "Abort")

C22_CancelledCallEndsCanceled ==
  \A i \in DOMAIN pc :
    (cancelled[i] /\ pc[i] = "settled")
      => /\ IsCanceledFailure(outcome[i])
         /\ ~IsFulfilled(i)
         /\ IsRejected(i) => ~StartsWith(outcome[i].message, "Gemini API error")

====
